---- MODULE Spec2Model ----
(***************************************************************************)
(* A model of generate_markdown.py: one run of generate_markdown() over    *)
(* the JSON inputs (research.json, tutorials.json, stars.json,             *)
(* citations.json) and the download statistics, as a state machine whose   *)
(* steps are the calls generate_markdown makes, in the order it makes them.*)
(*                                                                         *)
(* Strings the code takes apart (urls) are sequences of one-character      *)
(* strings.  A git url is given by the characters that follow its first 19 *)
(* characters ("https://github.com/"); a pypi url by its whole path.       *)
(* A Python dict is a sequence of <<key, value>> pairs with distinct keys, *)
(* in insertion order (the order a dict iterates in).                      *)
(***************************************************************************)
EXTENDS Integers, Sequences, FiniteSets

VARIABLES
    research,            \* data/research.json: a sequence of projects
    tutorials,           \* data/tutorials.json: a sequence of projects
    old_stars,           \* data/stars.json: dict repo key -> stars
    old_citations,       \* data/citations.json: dict name -> <<url, citations>>
    downloads,           \* the statistics service: dict package -> <<last_month, total>>
    missing,             \* the input file that cannot be read, or "none"
    TOP_K,               \* the module global TOP_K
    arg_topK,            \* the argument of get_top_authors(TOP_K), line 220
    author_cnt,          \* get_top_authors: the Counter of line 77
    pc,                  \* the position of generate_markdown
    error,               \* the exception that ended the run, or "none"
    top_authors,         \* get_top_authors: the listed author keys
    num_visible_authors, \* get_top_authors: num_of_visible
    packages,            \* get_pypi_downloads: <<package, last_month, total>> triples
    new_stars,           \* get_trending: dict repo key -> stars
    new_citations,       \* get_trending: dict name -> <<url, citations>>
    trending,            \* get_trending: [repos, papers, packages]
    tables,              \* generate_table: [research, tutorials], each a sequence of rows
    best,                \* get_best_of_the_best: [repos, papers, packages]
    readme               \* README.md: "old", "truncated" or the written document

vars == <<research, tutorials, old_stars, old_citations, downloads, missing, TOP_K,
          arg_topK, author_cnt, pc, error, top_authors, num_visible_authors, packages, new_stars,
          new_citations, trending, tables, best, readme>>

-----------------------------------------------------------------------------
(* Bounds of the model. *)

\* The largest TOP_K a run starts with (the source starts with 20).
MaxK == 2
\* The longest project list of the author runs.
MaxProjects == 3
\* The longest author list of a project.
MaxAuthors == 2
\* The largest star, citation or download count.
MaxMetric == 2
\* The longest tutorials.json (research.json takes the other projects of a run).
MaxTutorials == 1
\* The longest project list of the runs whose projects have links.
MaxLinkProjects == 2
\* The longest link list of a project.
MaxLinks == 2

-----------------------------------------------------------------------------
(* Sequences, dicts and sorting. *)

Min(a, b) == IF a <= b THEN a ELSE b

Range(s) == {s[i] : i \in 1..Len(s)}

SeqsUpTo(S, n) == UNION {[1..m -> S] : m \in 0..n}

RECURSIVE SumSeq(_)
SumSeq(s) == IF s = <<>> THEN 0 ELSE Head(s) + SumSeq(Tail(s))

\* s[:n] for n >= 0
Take(s, n) == SubSeq(s, 1, Min(n, Len(s)))

DictKeys(d) == [i \in 1..Len(d) |-> d[i][1]]

DictHas(d, k) == \E i \in 1..Len(d) : d[i][1] = k

DictGet(d, k) == d[CHOOSE i \in 1..Len(d) : d[i][1] = k][2]

\* d[k] = v: an existing key keeps its place, a new key goes last
DictSet(d, k, v) ==
    IF DictHas(d, k)
    THEN [i \in 1..Len(d) |-> IF d[i][1] = k THEN <<k, v>> ELSE d[i]]
    ELSE Append(d, <<k, v>>)

\* A sort key: the quotient num / den of Python's true division, den # 0, as
\* <<num, den>> with den > 0; an integer n is <<n, 1>>, and x / float('inf'),
\* which is 0.0, is <<0, 1>>.
Quot(num, den) == IF den < 0 THEN <<0 - num, 0 - den>> ELSE <<num, den>>

IntKey(n) == <<n, 1>>

QuotGt(a, b) == a[1] * b[2] > b[1] * a[2]

\* the first n values of f as a tuple: sorted computes the key of each element once
RECURSIVE AsTuple(_, _)
AsTuple(f, n) == IF n = 0 THEN <<>> ELSE Append(AsTuple(f, n - 1), f[n])

\* sorted(s, key=..., reverse=True), keys[i] the key of s[i]. The sort is stable,
\* and reverse=True keeps the order of elements with equal keys.
SortedDesc(s, keys) ==
    LET n == Len(s)
        ks == AsTuple(keys, n)
        pos(i) == Cardinality({j \in 1..n : QuotGt(ks[j], ks[i])})
                  + Cardinality({j \in 1..i : ks[j][1] * ks[i][2] = ks[i][1] * ks[j][2]})
    IN [p \in 1..n |-> s[CHOOSE i \in 1..n : pos(i) = p]]

-----------------------------------------------------------------------------
(* get_top_authors *)

RECURSIVE Flatten(_)
Flatten(ss) == IF ss = <<>> THEN <<>> ELSE Head(ss) \o Flatten(Tail(ss))

\* Counter(items): each distinct item with the number of its occurrences, in the
\* order of first occurrence
RECURSIVE Counter(_)
Counter(items) ==
    IF items = <<>> THEN <<>>
    ELSE LET front == SubSeq(items, 1, Len(items) - 1)
             last == items[Len(items)]
             cnt == Counter(front)
         IN IF DictHas(cnt, last)
            THEN DictSet(cnt, last, DictGet(cnt, last) + 1)
            ELSE Append(cnt, <<last, 1>>)

\* Counter.most_common(): by count, descending, first occurrence first among equals
most_common(cnt) == SortedDesc(cnt, [i \in 1..Len(cnt) |-> IntKey(cnt[i][2])])

\* Cutoff with the while loop left out: the list ends right after index topK
CutoffWithoutLoop(mc, idx, contributions) == idx + 1

\* the while loop of lines 81-82
RECURSIVE Cutoff(_, _, _)
Cutoff(mc, idx, contributions) ==
    IF idx <= Len(mc) /\ mc[idx][2] = contributions
    THEN Cutoff(mc, idx + 1, contributions)
    ELSE idx

\* numpy's median of a non-empty list, doubled (so that it stays an integer)
Median2(sizes) ==
    LET n == Len(sizes)
        s == SortedDesc(sizes, [i \in 1..n |-> IntKey(sizes[i])])
    IN IF n % 2 = 1 THEN 2 * s[(n + 1) \div 2] ELSE s[n \div 2] + s[n \div 2 + 1]

\* int(min(mean(sizes), median(sizes))) for a non-empty list of sizes
NumOfVisible(sizes) == Min(SumSeq(sizes) \div Len(sizes), Median2(sizes) \div 2)

-----------------------------------------------------------------------------
(* Urls. *)

\* the first i >= from with s[i .. i + Len(sub) - 1] = sub, or 0 (str.find is -1)
FindSub(s, sub, from) ==
    LET hits == {i \in from..(Len(s) - Len(sub) + 1) : SubSeq(s, i, i + Len(sub) - 1) = sub}
    IN IF hits = {} THEN 0 ELSE CHOOSE i \in hits : \A j \in hits : i <= j

Slash == <<"/">>

\* s.split(sep)[1]: what lies between the first and the second sep; the caller
\* checks that sep occurs (IndexError otherwise)
SplitSecond(s, sep) ==
    LET a == FindSub(s, sep, 1) + Len(sep)
        b == FindSub(s, sep, a)
    IN IF b = 0 THEN SubSeq(s, a, Len(s)) ELSE SubSeq(s, a, b - 1)

\* A git url is held as its characters from offset 19 on; Host is the 19 characters
\* before them, as in every git link of the data ('https://github.com/')
Host ==
    <<"h", "t", "t", "p", "s", ":", "/", "/",
      "g", "i", "t", "h", "u", "b", ".", "c", "o", "m", "/">>

ComSlash == <<"c", "o", "m", "/">>

\* url.split('com/')[1] of a git url: what lies between the first 'com/', the one
\* that ends the host, and the next one
AfterCom(url) == SplitSecond(Host \o url, ComSlash)

\* lines 96-98 and 199-201, on the characters from offset 19 on: url.index('/', 19)
\* raises ValueError when no '/' follows
RepoKeyFails(url) == FindSub(url, Slash, 1) = 0

RepoKey(url) ==
    LET idx == FindSub(url, Slash, 1) + 1
        end == FindSub(url, Slash, idx)
    IN IF end # 0 THEN SubSeq(url, 1, end - 1) ELSE url

OrgSlash == <<"o", "r", "g", "/">>

\* doi_url: url.split('org/')[1] raises IndexError when 'org/' does not occur
DoiUrlFails(url) == FindSub(url, OrgSlash, 1) = 0

doi_url(url) == SplitSecond(url, OrgSlash)

\* git_url: the badge names '/'.join(url.split('com/')[1].split('/')[:2]), the
\* first two '/'-separated pieces of what follows the first 'com/'
git_url(url) ==
    LET repo == AfterCom(url)
        a == FindSub(repo, Slash, 1)
        b == IF a = 0 THEN 0 ELSE FindSub(repo, Slash, a + 1)
    IN IF b = 0 THEN repo ELSE SubSeq(repo, 1, b - 1)

\* lines 103 and 211: url.split('com/')[1].split('/')[1] raises IndexError when
\* what follows the first 'com/' holds no '/' (an owner whose name ends in 'com')
RepoNameFails(key) == FindSub(AfterCom(key), Slash, 1) = 0

RepoName(key) == SplitSecond(AfterCom(key), Slash)

\* line 148: url.rstrip('/').split('/')[-1]
RECURSIVE RStrip(_)
RStrip(s) == IF s # <<>> /\ s[Len(s)] = "/" THEN RStrip(SubSeq(s, 1, Len(s) - 1)) ELSE s

PackageName(url) ==
    LET t == RStrip(url)
        slashes == {i \in 1..Len(t) : t[i] = "/"}
        last == IF slashes = {} THEN 0 ELSE CHOOSE i \in slashes : \A j \in slashes : j <= i
    IN SubSeq(t, last + 1, Len(t))

-----------------------------------------------------------------------------
(* get_trending *)

\* TrendLinks without the `not in used` tests: every git and doi link is recorded
RECURSIVE TrendLinksEveryLink(_, _, _)
TrendLinksEveryLink(name, links, acc) ==
    IF links = <<>> \/ acc.err # "none" THEN acc
    ELSE LET link == Head(links)
         IN IF link[1] = "git"
            THEN IF RepoKeyFails(link[2])
                 THEN [acc EXCEPT !.err = "ValueError"]
                 ELSE TrendLinksEveryLink(name, Tail(links),
                        [acc EXCEPT !.new_stars = DictSet(@, RepoKey(link[2]), link[3])])
            ELSE IF link[1] = "doi"
            THEN TrendLinksEveryLink(name, Tail(links),
                        [acc EXCEPT !.new_citations = DictSet(@, name, <<link[2], link[3]>>)])
            ELSE TrendLinksEveryLink(name, Tail(links), acc)

\* lines 196-207: the links of one project, in order; acc is
\* [err, new_stars, new_citations, used]
RECURSIVE TrendLinks(_, _, _)
TrendLinks(name, links, acc) ==
    IF links = <<>> \/ acc.err # "none" THEN acc
    ELSE LET link == Head(links)
         IN IF link[1] = "git" /\ "git" \notin acc.used
            THEN IF RepoKeyFails(link[2])
                 THEN [acc EXCEPT !.err = "ValueError"]
                 ELSE TrendLinks(name, Tail(links),
                        [acc EXCEPT !.new_stars = DictSet(@, RepoKey(link[2]), link[3]),
                                    !.used = @ \cup {"git"}])
            ELSE IF link[1] = "doi" /\ "doi" \notin acc.used
            THEN TrendLinks(name, Tail(links),
                        [acc EXCEPT !.new_citations = DictSet(@, name, <<link[2], link[3]>>),
                                    !.used = @ \cup {"doi"}])
            ELSE TrendLinks(name, Tail(links), acc)

\* lines 193-195: the loop over research + tutorials, used = set() per project
RECURSIVE TrendProjects(_, _)
TrendProjects(projects, acc) ==
    IF projects = <<>> \/ acc.err # "none" THEN acc
    ELSE TrendProjects(Tail(projects),
            TrendLinks(Head(projects).name, Head(projects).links, [acc EXCEPT !.used = {}]))

TrendMaps(projects) ==
    TrendProjects(projects,
        [err |-> "none", new_stars |-> <<>>, new_citations |-> <<>>, used |-> {}])

\* RepoScore with a default baseline of 1: old_stars.get(url, 1)
RepoScoreDefaultOne(ns, os, url) ==
    IF DictHas(os, url) THEN Quot(DictGet(ns, url), DictGet(os, url))
    ELSE Quot(DictGet(ns, url), 1)

\* line 208: new_stars[url] / old_stars.get(url, float('inf'))
RepoScore(ns, os, url) ==
    IF DictHas(os, url) THEN Quot(DictGet(ns, url), DictGet(os, url)) ELSE <<0, 1>>

\* line 209: new_citations[name][1] / max(old_citations.get(name, ['', inf])[1], 1)
PaperScore(nc, oc, name) ==
    IF DictHas(oc, name)
    THEN Quot(DictGet(nc, name)[2], IF DictGet(oc, name)[2] > 1 THEN DictGet(oc, name)[2] ELSE 1)
    ELSE <<0, 1>>

\* line 210: p[1] / (p[2] - p[1])  (p is <<package, last_month, total>>)
PackageScore(p) == Quot(p[2], p[3] - p[2])

\* lines 189-217; the result is [err, new_stars, new_citations, repos, papers, packages]
get_trending(projects, os, oc, pkgs, topK) ==
    LET m == TrendMaps(projects)
        ns == m.new_stars
        nc == m.new_citations
        repos == Take(SortedDesc(DictKeys(ns),
                                 [i \in 1..Len(ns) |-> RepoScore(ns, os, ns[i][1])]), topK)
        papers == Take(SortedDesc(DictKeys(nc),
                                  [i \in 1..Len(nc) |-> PaperScore(nc, oc, nc[i][1])]), topK)
        pkgsByScore == SortedDesc(pkgs, [i \in 1..Len(pkgs) |-> PackageScore(pkgs[i])])
        out(e) == [err |-> e, new_stars |-> ns, new_citations |-> nc,
                   repos |-> IF e = "none" THEN repos ELSE <<>>,
                   papers |-> IF e = "none" THEN papers ELSE <<>>,
                   packages |-> IF e = "none"
                                THEN Take(pkgsByScore, topK) ELSE <<>>]
    IN IF m.err # "none" THEN [out(m.err) EXCEPT !.new_stars = <<>>, !.new_citations = <<>>]
       ELSE IF \E i \in 1..Len(ns) : DictHas(os, ns[i][1]) /\ DictGet(os, ns[i][1]) = 0
       THEN out("ZeroDivisionError")
       ELSE IF \E i \in 1..Len(pkgs) : pkgs[i][3] = pkgs[i][2]
       THEN out("ZeroDivisionError")
       ELSE IF \E i \in 1..Len(repos) : RepoNameFails(repos[i])
       THEN out("IndexError")
       ELSE IF \E i \in 1..Len(papers) : DoiUrlFails(DictGet(nc, papers[i])[1])
       THEN out("IndexError")
       ELSE out("none")

-----------------------------------------------------------------------------
(* get_top_authors *)

\* get_top_authors without line 84: TOP_K keeps the value it was called with
get_top_authors_keeps_TOP_K(projects, topK) ==
    LET authors == Flatten([i \in 1..Len(projects) |-> projects[i].author])
        num_of_authors == [i \in 1..Len(projects) |-> Len(projects[i].author)]
        cnt == Counter(authors)
        mc == most_common(cnt)
    IN IF topK >= Len(mc)
       THEN [err |-> "IndexError", listed |-> <<>>, num_of_visible |-> 0,
             top_k |-> topK, cnt |-> cnt]
       ELSE LET contributions == mc[topK + 1][2]
                idx == Cutoff(mc, topK + 1, contributions) - 1
            IN [err |-> "none",
                listed |-> [i \in 1..idx |-> mc[i][1]],
                num_of_visible |-> NumOfVisible(num_of_authors),
                top_k |-> topK,
                cnt |-> cnt]

\* lines 73-86; the result is [err, listed, num_of_visible, top_k, cnt]. Line 79
\* raises IndexError when most_common has no element of index topK.
get_top_authors(projects, topK) ==
    LET authors == Flatten([i \in 1..Len(projects) |-> projects[i].author])
        num_of_authors == [i \in 1..Len(projects) |-> Len(projects[i].author)]
        cnt == Counter(authors)
        mc == most_common(cnt)
    IN IF topK >= Len(mc)
       THEN [err |-> "IndexError", listed |-> <<>>, num_of_visible |-> 0,
             top_k |-> topK, cnt |-> cnt]
       ELSE LET contributions == mc[topK + 1][2]
                idx == Cutoff(mc, topK + 1, contributions) - 1
            IN [err |-> "none",
                listed |-> [i \in 1..idx |-> mc[i][1]],
                num_of_visible |-> NumOfVisible(num_of_authors),
                top_k |-> idx,
                cnt |-> cnt]

-----------------------------------------------------------------------------
(* get_top_repos, get_top_papers, get_best_of_the_best *)

\* the first link of a kind in a project's links, as a sequence of 0 or 1 links
\* (the loops of lines 93-100 and 110-114 break at it)
FirstOfKind(links, kind) ==
    LET hits == {i \in 1..Len(links) : links[i][1] = kind}
    IN IF hits = {} THEN <<>> ELSE <<links[CHOOSE i \in hits : \A j \in hits : i <= j]>>

\* lines 91-100: repos[key] = stars for the first git link of each project
RECURSIVE TopRepoMap(_, _)
TopRepoMap(projects, acc) ==
    IF projects = <<>> \/ acc.err # "none" THEN acc
    ELSE LET first == FirstOfKind(Head(projects).links, "git")
         IN IF first = <<>> THEN TopRepoMap(Tail(projects), acc)
            ELSE IF RepoKeyFails(first[1][2]) THEN [acc EXCEPT !.err = "ValueError"]
            ELSE TopRepoMap(Tail(projects),
                    [acc EXCEPT !.repos = DictSet(@, RepoKey(first[1][2]), first[1][3])])

\* lines 89-103; the result is [err, repos], repos the listed keys. Line 103
\* takes the name of each listed repository out of its key.
get_top_repos(projects, topK) ==
    LET m == TopRepoMap(projects, [err |-> "none", repos |-> <<>>])
    IN IF m.err # "none" THEN [err |-> m.err, repos |-> <<>>]
       ELSE LET byStars == SortedDesc(m.repos,
                                      [i \in 1..Len(m.repos) |-> IntKey(m.repos[i][2])])
                listed == DictKeys(Take(byStars, topK))
            IN IF \E i \in 1..Len(listed) : RepoNameFails(listed[i])
               THEN [err |-> "IndexError", repos |-> <<>>]
               ELSE [err |-> "none", repos |-> listed]

\* TopPaperMap without the comparison of line 112: the last project wins
RECURSIVE TopPaperMapLastWins(_, _)
TopPaperMapLastWins(projects, repos) ==
    IF projects = <<>> THEN repos
    ELSE LET first == FirstOfKind(Head(projects).links, "doi")
         IN IF first = <<>> THEN TopPaperMapLastWins(Tail(projects), repos)
            ELSE TopPaperMapLastWins(Tail(projects),
                    DictSet(repos, first[1][2], <<Head(projects).name, first[1][3]>>))

\* lines 108-114: repos[url] = (name, citations) for the first doi link of each
\* project, kept when the url is new or the citations are larger
RECURSIVE TopPaperMap(_, _)
TopPaperMap(projects, repos) ==
    IF projects = <<>> THEN repos
    ELSE LET first == FirstOfKind(Head(projects).links, "doi")
         IN IF first = <<>> THEN TopPaperMap(Tail(projects), repos)
            ELSE LET link == first[1]
                 IN IF ~DictHas(repos, link[2]) \/ link[3] > DictGet(repos, link[2])[2]
                    THEN TopPaperMap(Tail(projects),
                            DictSet(repos, link[2], <<Head(projects).name, link[3]>>))
                    ELSE TopPaperMap(Tail(projects), repos)

\* lines 106-117; the result is [err, counts, papers]: counts the dict of line 113,
\* papers the listed <<name, url, citations>> triples
get_top_papers(projects, topK) ==
    LET repos == TopPaperMap(projects, <<>>)
        triples == [i \in 1..Len(repos) |-> <<repos[i][2][1], repos[i][1], repos[i][2][2]>>]
        listed == Take(SortedDesc(triples, [i \in 1..Len(triples) |-> IntKey(triples[i][3])]),
                       topK)
    IN IF \E i \in 1..Len(listed) : DoiUrlFails(listed[i][2])
       THEN [err |-> "IndexError", counts |-> repos, papers |-> <<>>]
       ELSE [err |-> "none", counts |-> repos, papers |-> listed]

\* lines 120-124; the result is [err, repos, papers, packages, counts]
get_best_of_the_best(projects, pkgs, topK) ==
    LET r == get_top_repos(projects, topK)
        p == get_top_papers(projects, topK)
        e == IF r.err # "none" THEN r.err ELSE p.err
    IN [err |-> e,
        packages |-> IF e = "none"
                     THEN Take(SortedDesc(pkgs, [i \in 1..Len(pkgs) |-> IntKey(pkgs[i][3])]),
                               topK)
                     ELSE <<>>,
        repos |-> IF e = "none" THEN r.repos ELSE <<>>,
        papers |-> IF e = "none" THEN p.papers ELSE <<>>,
        counts |-> IF r.err = "none" THEN p.counts ELSE <<>>]

-----------------------------------------------------------------------------
(* get_pypi_downloads *)

\* lines 144-148: the set of package names of the pypi links
PackageNames(projects) ==
    UNION {{PackageName(projects[i].links[j][2]) :
               j \in {k \in 1..Len(projects[i].links) : projects[i].links[k][1] = "pypi"}} :
           i \in 1..Len(projects)}

\* the orders a set can be iterated in
Orders(S) == {o \in [1..Cardinality(S) -> S] : \A x \in S : \E i \in DOMAIN o : o[i] = x}

\* line 185, for the packages in iteration order o: the statistics service raises
\* for a package it does not know
get_pypi_downloads(o, stats) ==
    IF \E i \in 1..Len(o) : ~DictHas(stats, o[i])
    THEN [err |-> "HTTPError", packages |-> <<>>]
    ELSE [err |-> "none",
          packages |-> [i \in 1..Len(o) |->
                           <<o[i], DictGet(stats, o[i])[1], DictGet(stats, o[i])[2]>>]]

-----------------------------------------------------------------------------
(* generate_table *)

\* lines 40-44; [kind, visible, others]
parse_authors(authors, num_of_visible) ==
    IF Len(authors) = 1
    THEN [kind |-> "single", visible |-> authors, others |-> <<>>]
    ELSE IF Len(authors) <= num_of_visible + 1
    THEN [kind |-> "list", visible |-> Take(authors, num_of_visible + 1), others |-> <<>>]
    ELSE [kind |-> "details", visible |-> Take(authors, num_of_visible),
          others |-> SubSeq(authors, num_of_visible + 1, Len(authors))]

\* The characters a kind is spelled with, in runs of consecutive code points:
\* tab and line feed (9, 10), form feed and carriage return (12, 13), ASCII 32 to
\* 95 and 97 to 126, Latin-1 160 to 255. Ord has a value for these characters
\* and for no other.
CodePoints9 == "\t\n"

CodePoints12 == "\f\r"

CodePoints32 == " !\"#$%&'()*+,-./0123456789:;<=>?@ABCDEFGHIJKLMNOPQRSTUVWXYZ[\\]^_"

CodePoints97 == "abcdefghijklmnopqrstuvwxyz{|}~"

CodePoints160 ==
    " ¡¢£¤¥¦§¨©ª«¬­®¯°±²³´µ¶·¸¹º»¼½¾¿ÀÁÂÃÄÅÆÇÈÉÊËÌÍÎÏÐÑÒÓÔÕÖ×ØÙÚÛÜÝÞßàáâãäåæçèéêëìíîïðñòóôõö÷øùúûüýþÿ"

\* each run with the code point of its first character
CodePointRuns ==
    <<<<CodePoints9, 9>>, <<CodePoints12, 12>>, <<CodePoints32, 32>>,
      <<CodePoints97, 97>>, <<CodePoints160, 160>>>>

\* the place of the one-character string c in `table`, or 0
PlaceIn(table, c) ==
    IF \E i \in 1..Len(table) : SubSeq(table, i, i) = c
    THEN CHOOSE i \in 1..Len(table) : SubSeq(table, i, i) = c
    ELSE 0

\* ord(c) of a one-character string: the run that holds c tells its code point
Ord(c) ==
    LET run == CodePointRuns[CHOOSE k \in 1..Len(CodePointRuns) :
                                PlaceIn(CodePointRuns[k][1], c) # 0]
    IN run[2] + PlaceIn(run[1], c) - 1

\* a < b of two strings: by the code points of the first characters that differ,
\* a proper prefix first
RECURSIVE StrLess(_, _)
StrLess(a, b) ==
    IF a = b \/ b = "" THEN FALSE
    ELSE IF a = "" THEN TRUE
    ELSE LET x == SubSeq(a, 1, 1)
             y == SubSeq(b, 1, 1)
         IN IF x = y THEN StrLess(SubSeq(a, 2, Len(a)), SubSeq(b, 2, Len(b)))
            ELSE Ord(x) < Ord(y)

\* the place of a kind among the kinds of a list of links, as strings compare
KindRank(links, kind) ==
    Cardinality({links[j][1] : j \in {h \in 1..Len(links) : StrLess(links[h][1], kind)}})

\* sorted(links, key=lambda x: x[0]): ascending and stable
SortedByKind(links) ==
    SortedDesc(links, [i \in 1..Len(links) |-> IntKey(0 - KindRank(links, links[i][1]))])

\* lines 49-52: dct[name].append(url)
RECURSIVE LinkDict(_)
LinkDict(links) ==
    IF links = <<>> THEN <<>>
    ELSE LET front == LinkDict(SubSeq(links, 1, Len(links) - 1))
             last == links[Len(links)]
         IN IF DictHas(front, last[1])
            THEN DictSet(front, last[1], Append(DictGet(front, last[1]), last[2]))
            ELSE Append(front, <<last[1], <<last[2]>>>>)

DictPop(d, k) == SelectSeq(d, LAMBDA e : e[1] # k)

\* lines 47-66; [err, doi, git, rest]: the doi badge and the git badge (sequences
\* of 0 or 1), and the links listed after them
parse_links(list_of_links) ==
    LET dct == LinkDict(list_of_links)
        hasDoi == DictHas(dct, "doi")
        hasGit == DictHas(dct, "git")
        d1 == IF hasDoi THEN DictPop(dct, "doi") ELSE dct
        d2 == IF ~hasGit THEN d1
              ELSE IF Len(DictGet(d1, "git")) = 1 THEN DictPop(d1, "git")
              ELSE DictSet(d1, "git", Tail(DictGet(d1, "git")))
    IN IF hasDoi /\ DoiUrlFails(DictGet(dct, "doi")[1])
       THEN [err |-> "IndexError", doi |-> <<>>, git |-> <<>>, rest |-> <<>>]
       ELSE [err |-> "none",
             doi |-> IF hasDoi THEN <<doi_url(DictGet(dct, "doi")[1])>> ELSE <<>>,
             git |-> IF hasGit THEN <<git_url(DictGet(dct, "git")[1])>> ELSE <<>>,
             rest |-> d2]

HeaderRows == <<[header |-> "names"], [header |-> "rule"]>>

\* lines 127-139; [err, rows]: the two header rows, then a row per project, latest
\* update first
generate_table(data, num_visible) ==
    LET colabs == SortedDesc(data, [i \in 1..Len(data) |-> IntKey(data[i].update)])
        links(i) == parse_links(SortedByKind(colabs[i].links))
    IN IF \E i \in 1..Len(colabs) : links(i).err # "none"
       THEN [err |-> "IndexError", rows |-> <<>>]
       ELSE [err |-> "none",
             rows |-> HeaderRows \o
                      [i \in 1..Len(colabs) |->
                          [name |-> colabs[i].name,
                           author |-> parse_authors(colabs[i].author, num_visible),
                           links |-> [doi |-> links(i).doi, git |-> links(i).git,
                                      rest |-> links(i).rest],
                           update |-> colabs[i].update]]]

-----------------------------------------------------------------------------
(* generate_markdown: the steps of one run. *)

\* Steps with README.md opened before its content is computed
StepsOpenFirst ==
    <<"open_readme", "get_top_authors", "get_pypi_downloads", "get_trending",
      "research_table", "tutorials_table", "get_best_of_the_best", "write_readme">>

\* lines 220-239 in the order Python evaluates them: the list to_write is built
\* whole before README.md is opened
Steps ==
    <<"get_top_authors", "get_pypi_downloads", "get_trending", "research_table",
      "tutorials_table", "get_best_of_the_best", "open_readme", "write_readme">>

After(step) ==
    LET i == CHOOSE j \in 1..Len(Steps) : Steps[j] = step
    IN IF i = Len(Steps) THEN "done" ELSE Steps[i + 1]

inputs == <<research, tutorials, old_stars, old_citations, downloads, missing, arg_topK>>

NoDoc == [trending |-> [repos |-> <<>>, papers |-> <<>>, packages |-> <<>>],
          research |-> <<>>, tutorials |-> <<>>,
          best |-> [authors |-> <<>>, repos |-> <<>>, papers |-> <<>>, packages |-> <<>>]]

\* an exception nothing catches ends the run where it is raised
Raise(e) ==
    /\ pc' = "aborted"
    /\ error' = e
    /\ UNCHANGED <<inputs, TOP_K, top_authors, num_visible_authors, packages, new_stars,
                   new_citations, trending, tables, best, readme, author_cnt>>

\* line 220: top_authors, num_visible_authors = get_top_authors(TOP_K)
GetTopAuthors ==
    /\ pc = "get_top_authors"
    /\ IF missing \in {"research.json", "tutorials.json"} THEN Raise("FileNotFoundError")
       ELSE \E r \in {get_top_authors(research \o tutorials, TOP_K)} :
               IF r.err # "none" THEN Raise(r.err)
               ELSE /\ TOP_K' = r.top_k
                    /\ author_cnt' = r.cnt
                    /\ top_authors' = r.listed
                    /\ num_visible_authors' = r.num_of_visible
                    /\ pc' = After("get_top_authors")
                    /\ UNCHANGED <<inputs, error, packages, new_stars, new_citations,
                                   trending, tables, best, readme>>

\* line 221: packages = get_pypi_downloads(); a set iterates in an order of its own
GetPypiDownloads ==
    /\ pc = "get_pypi_downloads"
    /\ \E o \in Orders(PackageNames(research \o tutorials)) :
          \E r \in {get_pypi_downloads(o, downloads)} :
             IF r.err # "none" THEN Raise(r.err)
             ELSE /\ packages' = r.packages
                  /\ pc' = After("get_pypi_downloads")
                  /\ UNCHANGED <<inputs, TOP_K, author_cnt, error, top_authors,
                                 num_visible_authors,
                                 new_stars, new_citations, trending, tables, best, readme>>

\* line 228: get_trending(packages, TOP_K), TOP_K read when the call is made
GetTrending ==
    /\ pc = "get_trending"
    /\ IF missing \in {"stars.json", "citations.json"} THEN Raise("FileNotFoundError")
       ELSE \E r \in {get_trending(research \o tutorials, old_stars, old_citations,
                                     packages, TOP_K)} :
               IF r.err # "none" THEN Raise(r.err)
               ELSE /\ new_stars' = r.new_stars
                    /\ new_citations' = r.new_citations
                    /\ trending' = [repos |-> r.repos, papers |-> r.papers,
                                    packages |-> r.packages]
                    /\ pc' = After("get_trending")
                    /\ UNCHANGED <<inputs, TOP_K, author_cnt, error, top_authors,
                                 num_visible_authors,
                                   packages, tables, best, readme>>

TableStep(fn) == IF fn = "research" THEN "research_table" ELSE "tutorials_table"

\* lines 230 and 232: generate_table(join('data', fn), num_visible_authors)
GenerateTable(fn) ==
    /\ pc = TableStep(fn)
    /\ \E r \in {generate_table(IF fn = "research" THEN research ELSE tutorials,
                                  num_visible_authors)} :
          IF r.err # "none" THEN Raise(r.err)
          ELSE /\ tables' = [tables EXCEPT ![fn] = r.rows]
               /\ pc' = After(TableStep(fn))
               /\ UNCHANGED <<inputs, TOP_K, author_cnt, error, top_authors,
                                 num_visible_authors,
                              packages, new_stars, new_citations, trending, best, readme>>

\* line 234: get_best_of_the_best(top_authors, packages, TOP_K)
GetBestOfTheBest ==
    /\ pc = "get_best_of_the_best"
    /\ \E r \in {get_best_of_the_best(research \o tutorials, packages, TOP_K)} :
          IF r.err # "none" THEN Raise(r.err)
          ELSE /\ best' = [authors |-> top_authors, repos |-> r.repos,
                           papers |-> r.papers, packages |-> r.packages,
                           counts |-> r.counts]
               /\ pc' = After("get_best_of_the_best")
               /\ UNCHANGED <<inputs, TOP_K, author_cnt, error, top_authors,
                                 num_visible_authors,
                              packages, new_stars, new_citations, trending, tables, readme>>

\* line 238: open('README.md', 'w') truncates the file
OpenReadme ==
    /\ pc = "open_readme"
    /\ readme' = [state |-> "truncated", doc |-> NoDoc]
    /\ pc' = After("open_readme")
    /\ UNCHANGED <<inputs, TOP_K, author_cnt, error, top_authors,
                                 num_visible_authors, packages,
                   new_stars, new_citations, trending, tables, best>>

\* line 239: f.write('\n'.join(to_write))
WriteReadme ==
    /\ pc = "write_readme"
    /\ readme' = [state |-> "written",
                  doc |-> [trending |-> trending, research |-> tables.research,
                           tutorials |-> tables.tutorials,
                           best |-> [authors |-> best.authors, repos |-> best.repos,
                                     papers |-> best.papers, packages |-> best.packages]]]
    /\ pc' = After("write_readme")
    /\ UNCHANGED <<inputs, TOP_K, author_cnt, error, top_authors,
                                 num_visible_authors, packages,
                   new_stars, new_citations, trending, tables, best>>

Next ==
    \/ GetTopAuthors
    \/ GetPypiDownloads
    \/ GetTrending
    \/ GenerateTable("research")
    \/ GenerateTable("tutorials")
    \/ GetBestOfTheBest
    \/ OpenReadme
    \/ WriteReadme

-----------------------------------------------------------------------------
(* The inputs of a run. *)

Project(n, a, l, u) == [name |-> n, author |-> a, links |-> l, update |-> u]

AuthorKeys == {<<"a", "u">>, <<"a", "v">>, <<"b", "u">>}

\* the author lists of the projects of a run with links: the same for each project
LinkAuthors == {<< <<"a", "u">> >>, << <<"a", "u">>, <<"b", "u">> >>}

\* a repository whose owner's name ends in 'com'
ComGitUrl == <<"c", "o", "m", "/", "r">>

\* git urls, from offset 19 on: two repositories, a deeper path into the first,
\* and the repository of the owner named 'com'
GitUrls == {<<"o", "/", "r">>, <<"o", "/", "r", "/", "t">>, <<"o", "/", "s">>, ComGitUrl}

\* a git url with no '/' after the host
BadGitUrl == <<"o">>

DoiUrls == {<<"o", "r", "g", "/", "X">>, <<"o", "r", "g", "/", "Y">>}

BadDoiUrl == <<"X">>

PypiUrls == {<<"k">>, <<"k", "/">>, <<"x", "/", "m">>}

GitLinks(Stars) == {<<"git", u, n>> : u \in GitUrls, n \in Stars}

DoiLinks(Citations) == {<<"doi", u, n>> : u \in DoiUrls, n \in Citations}

PypiLinks == {<<"pypi", u>> : u \in PypiUrls}

\* a dict with an optional entry for each of two keys
OptEntry(k, Vals) == {<<>>} \cup {<< <<k, v>> >> : v \in Vals}

Dicts2(k1, k2, Vals) == {a \o b : a \in OptEntry(k1, Vals), b \in OptEntry(k2, Vals)}

StarSnapshots == Dicts2(<<"o", "/", "r">>, <<"o", "/", "s">>, 0..MaxMetric)

CitationSnapshots == Dicts2("p", "q", {<<<<>>, n>> : n \in 0..MaxMetric})

DownloadStats == Dicts2(<<"k">>, <<"m">>, (0..MaxMetric) \X (0..MaxMetric))

\* the project lists of the runs whose projects have links
LinkRuns(Names, LinkLists, Updates) ==
    UNION {SeqsUpTo({Project(n, a, l, u) : n \in Names, l \in LinkLists, u \in Updates},
                    MaxLinkProjects) : a \in LinkAuthors}

Singles(Links) == {<<>>} \cup {<<l>> : l \in Links}

InitRun(Runs, OldStars, OldCitations, Stats, Missing) ==
    /\ \E ps \in Runs : \E n \in 0..Min(MaxTutorials, Len(ps)) :
          /\ research = SubSeq(ps, 1, Len(ps) - n)
          /\ tutorials = SubSeq(ps, Len(ps) - n + 1, Len(ps))
    /\ old_stars \in OldStars
    /\ old_citations \in OldCitations
    /\ downloads \in Stats
    /\ missing \in Missing
    /\ TOP_K \in 0..MaxK
    /\ arg_topK = TOP_K
    /\ author_cnt = <<>>
    /\ pc = Steps[1]
    /\ error = "none"
    /\ top_authors = <<>>
    /\ num_visible_authors = 0
    /\ packages = <<>>
    /\ new_stars = <<>>
    /\ new_citations = <<>>
    /\ trending = NoDoc.trending
    /\ tables = [research |-> <<>>, tutorials |-> <<>>]
    /\ best = [authors |-> <<>>, repos |-> <<>>, papers |-> <<>>, packages |-> <<>>,
               counts |-> <<>>]
    /\ readme = [state |-> "old", doc |-> NoDoc]

\* runs that differ in who is credited: projects without links
InitAuthors ==
    InitRun(SeqsUpTo({Project("p", a, <<>>, 1) : a \in SeqsUpTo(AuthorKeys, MaxAuthors)},
                     MaxProjects),
            {<<>>}, {<<>>}, {<<>>}, {"none"})

\* runs that differ in the stars of the repositories, now and in the last snapshot
InitTrendRepos ==
    InitRun(LinkRuns({"p"}, Singles(GitLinks(0..MaxMetric)), {1}),
            StarSnapshots, {<<>>}, {<<>>}, {"none"})

\* runs that differ in the citations of the papers, now and in the last snapshot
InitTrendPapers ==
    InitRun(LinkRuns({"p", "q"}, Singles(DoiLinks(0..MaxMetric)), {1}),
            {<<>>}, CitationSnapshots, {<<>>}, {"none"})

InitTrend == InitTrendRepos \/ InitTrendPapers

\* runs whose projects have several links, of one kind or of both
InitLinks ==
    InitRun(LinkRuns({"p", "q"},
                     SeqsUpTo({<<"git", <<"o", "/", "r">>, 1>>, <<"git", <<"o", "/", "s">>, 2>>}
                              \cup DoiLinks(1..MaxMetric), MaxLinks),
                     {1}),
            {<<>>}, {<<>>}, {<<>>}, {"none"})

\* runs that differ in the packages and in what the statistics service answers
InitPackages ==
    InitRun(LinkRuns({"p"}, Singles(PypiLinks), {1, 2}),
            {<<>>}, {<<>>}, DownloadStats, {"none"})

\* runs over whole projects, some of them with a url the code cannot take apart,
\* with an input file that may be missing and a baseline that may be 0
InitWhole ==
    InitRun(LinkRuns({"p", "q"},
                     {<<>>,
                      <<<<"git", <<"o", "/", "r">>, 2>>, <<"doi", <<"o", "r", "g", "/", "X">>, 1>>,
                        <<"pypi", <<"k">>>>>>,
                      <<<<"yt", <<"v">>>>,
                        <<"git", <<"o", "/", "s">>, 1>>, <<"doi", <<"o", "r", "g", "/", "Y">>, 2>>,
                        <<"pypi", <<"x", "/", "m">>>>, <<"blög", <<"v">>>>,
                        <<"arxiv", <<"w">>>>, <<"a\tb", <<"w">>>>>>,
                      <<<<"git", BadGitUrl, 1>>>>,
                      <<<<"git", ComGitUrl, 2>>>>,
                      <<<<"doi", BadDoiUrl, 1>>>>},
                     {1}),
            {<<>>, << <<<<"o", "/", "r">>, 0>> >>},
            {<<>>},
            {<<>>,
             << <<<<"k">>, <<1, 2>>>>, <<<<"m">>, <<1, 3>>>> >>,
             << <<<<"k">>, <<2, 2>>>>, <<<<"m">>, <<1, 3>>>> >>},
            {"none", "research.json", "tutorials.json", "stars.json", "citations.json"})

Spec == InitWhole /\ [][Next]_vars

SpecAuthors == InitAuthors /\ [][Next]_vars

SpecTrend == InitTrend /\ [][Next]_vars

SpecLinks == InitLinks /\ [][Next]_vars

SpecPackages == InitPackages /\ [][Next]_vars

-----------------------------------------------------------------------------
(* What the claims speak about. *)

Projects == research \o tutorials

StepIndex(step) == CHOOSE j \in 1..Len(Steps) : Steps[j] = step

\* the run has completed `step` and has not been aborted since
Reached(step) ==
    \/ pc = "done"
    \/ pc \in Range(Steps) /\ StepIndex(pc) > StepIndex(step)

\* the author keys the projects credit
Credited == UNION {Range(Projects[i].author) : i \in 1..Len(Projects)}

\* how often key k is credited: its multiplicity in the multiset of author credits
Credits(k) ==
    SumSeq([i \in 1..Len(Projects) |->
               Cardinality({j \in 1..Len(Projects[i].author) : Projects[i].author[j] = k})])

\* the number of projects that credit key k
CreditingProjects(k) ==
    Cardinality({i \in 1..Len(Projects) : k \in Range(Projects[i].author)})

\* the first link of a kind among the links of project i, and whether there is one
HasLink(i, kind) == \E j \in 1..Len(Projects[i].links) : Projects[i].links[j][1] = kind

FirstLink(i, kind) ==
    Projects[i].links[CHOOSE j \in 1..Len(Projects[i].links) :
                         /\ Projects[i].links[j][1] = kind
                         /\ \A h \in 1..(j - 1) : Projects[i].links[h][1] # kind]

MaxOf(S) == CHOOSE x \in S : \A y \in S : y <= x

\* in `list`, a stands below b: wherever a is listed, b is listed before it
Below(list, a, b) ==
    \A i \in 1..Len(list) : list[i] = a => \E j \in 1..(i - 1) : list[j] = b

\* the place of key k in a dict
PlaceOf(d, k) == CHOOSE i \in 1..Len(d) : d[i][1] = k

-----------------------------------------------------------------------------
(* C1: the author ranking get_top_authors returns is sorted by the number of  *)
(* credits, descending; no listed author has fewer credits than an author left *)
(* out; and no author left out has as many credits as the last listed author.  *)
C1_RankingSortedTieInclusive ==
    Reached("get_top_authors") =>
        LET n == Len(top_authors)
            left == Credited \ Range(top_authors)
        IN /\ Range(top_authors) \subseteq Credited
           /\ \A i, j \in 1..n : i < j => /\ top_authors[i] # top_authors[j]
                                          /\ Credits(top_authors[i]) >= Credits(top_authors[j])
           /\ \A k \in left : \A i \in 1..n : Credits(top_authors[i]) >= Credits(k)
           /\ \A k \in left : n >= 1 => Credits(k) # Credits(top_authors[n])

\* a ranking that keeps a tie at the cutoff and leaves an author out
C1_Witness ==
    /\ Reached("get_top_authors")
    /\ Len(top_authors) >= 2
    /\ Credits(top_authors[Len(top_authors)]) = Credits(top_authors[Len(top_authors) - 1])
    /\ Credited \ Range(top_authors) # {}

(* C2: for k >= 1, get_top_authors(k) returns the k authors with the most       *)
(* credits plus exactly the further authors with as many credits as the k-th:   *)
(* the authors with at least the k-th largest number of credits; the effective  *)
(* K is their number (k when the (k+1)-th count is smaller than the k-th).      *)
C2_GrowsOnlyForTiesWithKth ==
    (Reached("get_top_authors") /\ arg_topK >= 1) =>
        LET kth == CHOOSE c \in {Credits(a) : a \in Credited} :
                      /\ Cardinality({a \in Credited : Credits(a) > c}) < arg_topK
                      /\ Cardinality({a \in Credited : Credits(a) >= c}) >= arg_topK
        IN /\ Range(top_authors) = {a \in Credited : Credits(a) >= kth}
           /\ TOP_K = Cardinality({a \in Credited : Credits(a) >= kth})

(* C3: in the repository ranking and in the paper ranking of get_trending, a    *)
(* key with no entry in the previous snapshot has score 0 and stands below      *)
(* every key with a positive previous value, whatever the current values are.   *)
C3_NoBaselineBelowAnyBaseline ==
    Reached("get_trending") =>
        /\ \A a, b \in Range(DictKeys(new_stars)) :
              (~DictHas(old_stars, a) /\ DictHas(old_stars, b) /\ DictGet(old_stars, b) > 0)
              => /\ RepoScore(new_stars, old_stars, a)[1] = 0
                 /\ Below(trending.repos, a, b)
        /\ \A a, b \in Range(DictKeys(new_citations)) :
              (~DictHas(old_citations, a) /\ DictHas(old_citations, b)
               /\ DictGet(old_citations, b)[2] > 0)
              => /\ PaperScore(new_citations, old_citations, a)[1] = 0
                 /\ Below(trending.papers, a, b)

(* C3, amended: a key with no entry in the previous snapshot has score 0 and    *)
(* stands below every key whose previous value and current value are both       *)
(* positive.                                                                     *)
C3_NoBaselineBelowPositiveScore ==
    Reached("get_trending") =>
        /\ \A a, b \in Range(DictKeys(new_stars)) :
              (~DictHas(old_stars, a) /\ DictHas(old_stars, b) /\ DictGet(old_stars, b) > 0
               /\ DictGet(new_stars, b) > 0)
              => /\ RepoScore(new_stars, old_stars, a)[1] = 0
                 /\ Below(trending.repos, a, b)
        /\ \A a, b \in Range(DictKeys(new_citations)) :
              (~DictHas(old_citations, a) /\ DictHas(old_citations, b)
               /\ DictGet(old_citations, b)[2] > 0 /\ DictGet(new_citations, b)[2] > 0)
              => /\ PaperScore(new_citations, old_citations, a)[1] = 0
                 /\ Below(trending.papers, a, b)

\* a repository without baseline, seen first and with more stars, listed after one
\* with a baseline
C3_Witness ==
    /\ Reached("get_trending")
    /\ \E a, b \in Range(DictKeys(new_stars)) :
          /\ ~DictHas(old_stars, a)
          /\ DictHas(old_stars, b) /\ DictGet(old_stars, b) > 0
          /\ DictGet(new_stars, a) > DictGet(new_stars, b) /\ DictGet(new_stars, b) > 0
          /\ PlaceOf(new_stars, a) < PlaceOf(new_stars, b)
          /\ \E i, j \in 1..Len(trending.repos) :
                i < j /\ trending.repos[i] = b /\ trending.repos[j] = a

\* the doi urls that are the first doi link of some project
FirstDois == {FirstLink(i, "doi")[2] : i \in {h \in 1..Len(Projects) : HasLink(h, "doi")}}

\* the doi links, of any project and at any place, that cite url
DoiLinksTo(url) ==
    UNION {{l \in Range(Projects[i].links) : l[1] = "doi" /\ l[2] = url} :
           i \in 1..Len(Projects)}

RECURSIVE Reverse(_)
Reverse(q) == IF q = <<>> THEN <<>> ELSE Append(Reverse(Tail(q)), Head(q))

(* C4: once get_top_papers has gone through the projects, every doi url a       *)
(* project cites is recorded with the largest citation count among the doi      *)
(* links that cite it.                                                          *)
C4_MaxOverAllCitingProjects ==
    Reached("get_best_of_the_best") =>
        \A i \in 1..Len(Projects) : \A j \in 1..Len(Projects[i].links) :
            Projects[i].links[j][1] = "doi" =>
                LET url == Projects[i].links[j][2]
                IN /\ DictHas(best.counts, url)
                   /\ DictGet(best.counts, url)[2] = MaxOf({l[3] : l \in DoiLinksTo(url)})

(* C4, amended: once get_top_papers has gone through the projects, the recorded *)
(* doi urls are those that are the first doi link of a project, each with the   *)
(* largest citation count among the projects whose first doi link it is; the    *)
(* counts are the same when the projects are gone through in reverse order.     *)
C4_MaxOverFirstDoiLinks ==
    Reached("get_best_of_the_best") =>
        /\ Range(DictKeys(best.counts)) = FirstDois
        /\ \A url \in FirstDois :
              /\ DictGet(best.counts, url)[2] =
                    MaxOf({FirstLink(i, "doi")[3] :
                             i \in {h \in 1..Len(Projects) :
                                      HasLink(h, "doi") /\ FirstLink(h, "doi")[2] = url}})
              /\ DictGet(TopPaperMap(Reverse(Projects), <<>>), url)[2]
                    = DictGet(best.counts, url)[2]

\* two projects whose first doi link is the same url, the earlier one with more
\* citations
C4_Witness ==
    /\ Reached("get_best_of_the_best")
    /\ \E i, j \in 1..Len(Projects) :
          /\ i < j /\ HasLink(i, "doi") /\ HasLink(j, "doi")
          /\ FirstLink(i, "doi")[2] = FirstLink(j, "doi")[2]
          /\ FirstLink(i, "doi")[3] > FirstLink(j, "doi")[3]
          /\ DictGet(best.counts, FirstLink(i, "doi")[2])[2] = FirstLink(i, "doi")[3]

(* C5: the count get_top_authors ranks an author key by is the number of        *)
(* projects that credit the key, a project adding at most 1.                    *)
C5_CountIsNumberOfProjects ==
    Reached("get_top_authors") =>
        /\ Range(DictKeys(author_cnt)) = Credited
        /\ \A k \in Credited : DictGet(author_cnt, k) = CreditingProjects(k)

(* C6: get_trending records, for each project, only its first git link and its  *)
(* first doi link: new_stars holds the keys of the first git links, each with   *)
(* the stars of the last project that has it, and new_citations the names of    *)
(* the projects with a doi link, each with the first doi link of the last       *)
(* project of that name.                                                        *)
C6_FirstLinkOfEachKind ==
    Reached("get_trending") =>
        LET withGit == {i \in 1..Len(Projects) : HasLink(i, "git")}
            withDoi == {i \in 1..Len(Projects) : HasLink(i, "doi")}
            keyOf(i) == RepoKey(FirstLink(i, "git")[2])
        IN /\ Range(DictKeys(new_stars)) = {keyOf(i) : i \in withGit}
           /\ \A i \in withGit :
                 (\A h \in withGit : h > i => keyOf(h) # keyOf(i))
                 => DictGet(new_stars, keyOf(i)) = FirstLink(i, "git")[3]
           /\ Range(DictKeys(new_citations)) = {Projects[i].name : i \in withDoi}
           /\ \A i \in withDoi :
                 (\A h \in withDoi : h > i => Projects[h].name # Projects[i].name)
                 => DictGet(new_citations, Projects[i].name)
                       = <<FirstLink(i, "doi")[2], FirstLink(i, "doi")[3]>>
           /\ Len(new_stars) <= Cardinality(withGit)
           /\ Len(new_citations) <= Cardinality(withDoi)

\* a project with two git links into different repositories and a project, the
\* last of its name, with two different doi links
C6_Witness ==
    /\ Reached("get_trending")
    /\ \E i \in 1..Len(Projects) :
          /\ Len(Projects[i].links) = 2
          /\ Projects[i].links[1][1] = "git" /\ Projects[i].links[2][1] = "git"
          /\ RepoKey(Projects[i].links[1][2]) # RepoKey(Projects[i].links[2][2])
          /\ ~DictHas(new_stars, RepoKey(Projects[i].links[2][2]))
    /\ \E i \in 1..Len(Projects) :
          /\ Len(Projects[i].links) = 2
          /\ Projects[i].links[1][1] = "doi" /\ Projects[i].links[2][1] = "doi"
          /\ Projects[i].links[1] # Projects[i].links[2]
          /\ DictGet(new_citations, Projects[i].name)
                = <<Projects[i].links[1][2], Projects[i].links[1][3]>>

(* C7: a run over no projects ends without an error, with empty rankings and    *)
(* tables of header rows only; and get_top_authors raises nothing when the      *)
(* projects credit no more distinct authors than the requested k.               *)
C7_EmptyRunFinishes ==
    /\ (Projects = <<>> /\ missing = "none") =>
          /\ pc # "aborted"
          /\ pc = "done" => /\ readme.doc.research = HeaderRows
                            /\ readme.doc.tutorials = HeaderRows
                            /\ author_cnt = <<>> /\ new_stars = <<>> /\ new_citations = <<>>
    /\ (Cardinality(Credited) <= arg_topK /\ missing = "none") =>
          ~(pc = "aborted" /\ error = "IndexError" /\ top_authors = <<>>)

(* C8: a package whose downloads of the last month equal its total downloads    *)
(* never ends the run with an arithmetic fault nothing handles.                 *)
C8_ZeroDenominatorHandled ==
    (\E i \in 1..Len(packages) : packages[i][2] = packages[i][3]) =>
        ~(pc = "aborted" /\ error = "ZeroDivisionError")

(* C9: README.md is opened for writing only when every read, the download       *)
(* fetch and every ranking and table of the run have completed without an       *)
(* error; a run that fails leaves README.md as it was.                          *)
C9_ReadmeOpenedAfterAllSteps ==
    /\ readme.state # "old" =>
          /\ error = "none"
          /\ pc \in {"write_readme", "done"}
          /\ \A step \in Range(Steps) \ {"open_readme", "write_readme"} : Reached(step)
    /\ pc = "aborted" => readme = [state |-> "old", doc |-> NoDoc]
    /\ pc = "done" => readme.state = "written"

\* a run that fails after its trending rankings were computed
C9_Witness ==
    /\ pc = "aborted"
    /\ error = "IndexError"
    /\ trending.repos # <<>>
    /\ readme.state = "old"

(* C10: after get_top_authors(K) has returned K' authors, TOP_K is K' >= K, and *)
(* each trending ranking and each best-of-the-best ranking built afterwards is  *)
(* cut to K' entries: it holds its first K' candidates, or all when fewer.      *)
C10_EffectiveKUsedByLaterRankings ==
    /\ Reached("get_top_authors") =>
          /\ TOP_K = Len(top_authors)
          /\ TOP_K >= arg_topK
    /\ Reached("get_trending") =>
          /\ Len(trending.repos) = Min(TOP_K, Len(new_stars))
          /\ Len(trending.papers) = Min(TOP_K, Len(new_citations))
          /\ Len(trending.packages) = Min(TOP_K, Len(packages))
    /\ Reached("get_best_of_the_best") =>
          /\ best.authors = top_authors
          /\ Len(best.repos) = Min(TOP_K, Len(new_stars))
          /\ Len(best.papers) = Min(TOP_K, Len(best.counts))
          /\ Len(best.packages) = Min(TOP_K, Len(packages))

\* a finished run whose rankings were cut at an effective K above the requested one
C10_Witness ==
    /\ pc = "done"
    /\ TOP_K > arg_topK
    /\ Len(new_stars) > TOP_K /\ Len(trending.repos) = TOP_K
    /\ Len(new_citations) > TOP_K /\ Len(trending.papers) = TOP_K
    /\ Len(packages) > TOP_K /\ Len(trending.packages) = TOP_K
    /\ Len(best.repos) = TOP_K /\ Len(best.papers) = TOP_K /\ Len(best.packages) = TOP_K

====
